---- MODULE Spec2Model ----
(***************************************************************************)
(* State-machine model of the exam_bot backend: the relational rows        *)
(* (users, questions, payments), the upload directory, the payment         *)
(* provider's intents, and the HTTP requests in flight.  Every request     *)
(* works on its own SQLAlchemy session: an object it loaded keeps the      *)
(* column values read at load time, and `obj.col += n' followed by         *)
(* db.commit() writes "loaded value + n" back to the row.                  *)
(***************************************************************************)
EXTENDS Integers, FiniteSets, Sequences, TLC

\* ---------------------------------------------------------------- bounds
\* Requests that change state (registrations, uploads, deletions, webhook
\* deliveries that reach the ledger, intents created) in one behaviour.
MaxRequests == 4

\* Requests that may overlap in time (one per server worker).
Workers == {"w1", "w2"}

\* The emails clients register with; users.email is unique, so these bound
\* the accounts.
Emails == {"a@x", "b@x"}

\* ------------------------------------------------------ program constants
\* payments.py CREDIT_PACKAGES
CREDIT_PACKAGES ==
    [small  |-> [credits |-> 10,  amount |-> 499],
     medium |-> [credits |-> 50,  amount |-> 1999],
     large  |-> [credits |-> 200, amount |-> 5999]]

PackageNames == DOMAIN CREDIT_PACKAGES

\* Package names a client may send to create_payment_intent.
RequestedPackages == {"small", "large", "bogus"}

\* Amounts (in cents) a client may send with them (StripePaymentIntent.amount).
ClientAmounts == {1, CREDIT_PACKAGES.small.amount}

\* auth.py: credits=5 for a new user
FREE_CREDITS == 5

\* questions.py: current_user.credits -= 1
UPLOAD_COST == 1

\* Balances of the account that exists at the start.
SpentBalances == {1}

\* The question ids a client may ask for.
QuestionIds == 1 .. MaxRequests

HTTP_200_OK == 200
HTTP_204_NO_CONTENT == 204
HTTP_400_BAD_REQUEST == 400
HTTP_401_UNAUTHORIZED == 401
HTTP_402_PAYMENT_REQUIRED == 402
HTTP_403_FORBIDDEN == 403
HTTP_404_NOT_FOUND == 404
HTTP_500_INTERNAL_SERVER_ERROR == 500

SUCCEEDED == "payment_intent.succeeded"
EventTypes == {SUCCEEDED, "payment_intent.payment_failed"}

\* google_vision.py detect_text: the string returned when the client is None
VISION_NOT_INITIALIZED == "Error: Google Vision API client not initialized. Please check credentials."

\* ----------------------------------------------------------------- state
VARIABLES
    users,      \* table users: id -> [email, credits]
    questions,  \* table questions: set of rows [id, user_id, image_path, extracted_text]
    nextQid,    \* questions.id sequence
    payments,   \* table payments: set of rows
    files,      \* names of the files in the upload directory
    nextFile,   \* number of uuid4 names drawn so far (names never repeat)
    intents,    \* the payment provider's intents: id -> metadata
    vision_client, \* GoogleVisionService().client: "ready", or "none" when its construction failed
    req,        \* worker -> the request it is handling and that request's session
    started,    \* state-changing requests started so far
    response    \* the response sent by the last step (NoResponse: none)

vars == <<users, questions, nextQid, payments, files, nextFile, intents, vision_client, req,
          started, response>>

db == <<users, questions, nextQid, payments>>

Idle ==
    [op |-> "idle", pc |-> "idle", user |-> 0, credits |-> 0, email |-> "",
     arg |-> 0, k |-> 0, amount |-> 0, file |-> 0, signed |-> TRUE, type |-> ""]

\* A response: the endpoint, the status, the detail or message, and, for the
\* question endpoints, the caller, the id asked for and the rows returned.
RespondTo(o, s, b, u, q, rs) ==
    [op |-> o, status |-> s, body |-> b, user |-> u, arg |-> q, rows |-> rs]

Respond(o, s, b) == RespondTo(o, s, b, 0, 0, {})

NoResponse == Respond("none", 0, "")

\* The database after some use: one account, registered as register_user
\* does, that has spent all but `c' of its free credits on uploads it deleted
\* again.  File
\* names and question ids are opaque; they are numbered from the first one
\* drawn in the behaviour.
Init ==
    /\ \E c \in SpentBalances : users = <<[email |-> "a@x", credits |-> c]>>
    /\ nextQid = 1
    /\ nextFile = 0
    /\ questions = {}
    /\ payments = {}
    /\ files = {}
    /\ intents = << >>
    /\ vision_client \in {"ready", "none"}
    /\ req = [w \in Workers |-> Idle]
    /\ started = 0
    /\ response = NoResponse

\* -------------------------------------------------------------- helpers
Registered == DOMAIN users

\* db.query(User).filter(User.email == e).first()
UserByEmail(e) == {u \in Registered : users[u].email = e}

\* db.query(Question).filter(Question.id == q).first()
QuestionById(q) == {r \in questions : r.id = q}

\* the rows a unique index on payments.stripe_payment_id would collide with
PaymentsWithId(pid) == {p \in payments : p.stripe_payment_id = pid}

Finish(w) == req' = [req EXCEPT ![w] = Idle]

\* a state-changing request starts
Start == started < MaxRequests /\ started' = started + 1

\* what no request writes
env == <<vision_client>>

\* ------------------------------------------------------------------ auth
\* get_current_user: a bearer token whose subject is no row of users (or that
\* does not decode) is answered 401 by every authenticated endpoint.
get_current_user_fails(w) ==
    /\ req[w].pc = "idle"
    /\ response' = Respond("auth", HTTP_401_UNAUTHORIZED, "Could not validate credentials")
    /\ UNCHANGED <<db, files, nextFile, intents, req, started, env>>

\* read_users_me: returns the caller's row.
read_users_me(w) ==
    /\ req[w].pc = "idle"
    /\ \E u \in Registered :
          response' = Respond("me", HTTP_200_OK, "")
    /\ UNCHANGED <<db, files, nextFile, intents, req, started, env>>

\* login_for_access_token: authenticate_user either finds the account or not;
\* nothing is written.
login_for_access_token(w) ==
    /\ req[w].pc = "idle"
    /\ \/ \E u \in Registered : response' = Respond("login", HTTP_200_OK, "")
       \/ response' = Respond("login", HTTP_401_UNAUTHORIZED, "Incorrect email or password")
    /\ UNCHANGED <<db, files, nextFile, intents, req, started, env>>

\* -------------------------------------------------------------- register
\* register_user up to the email lookup: an email already in users is
\* answered 400 and nothing is added to the session.
register_user_begin(w) ==
    /\ req[w].pc = "idle"
    /\ \E e \in Emails :
          IF UserByEmail(e) # {}
          THEN /\ response' = Respond("register", HTTP_400_BAD_REQUEST, "Email already registered")
               /\ UNCHANGED <<req, started>>
          ELSE /\ Len(users) < Cardinality(Emails)
               /\ Start
               /\ req' = [req EXCEPT ![w] = [Idle EXCEPT !.op = "register", !.pc = "commit", !.email = e]]
               /\ response' = NoResponse
    /\ UNCHANGED <<db, files, nextFile, intents, env>>

\* the unique index ix_users_email
EmailUnique(e) == UserByEmail(e) = {}

\* register_user from db.add(db_user) on: the INSERT of the commit fails on
\* the unique email index (or on any database error) and the exception is
\* re-raised (an unhandled exception: 500), else the row is created with 5
\* free credits; db.refresh(db_user) may still fail after the commit.
register_user_commit(w) ==
    /\ req[w].op = "register" /\ req[w].pc = "commit"
    /\ \/ /\ EmailUnique(req[w].email)
          /\ Len(users) < Cardinality(Emails)
          /\ users' = Append(users, [email |-> req[w].email, credits |-> FREE_CREDITS])
          /\ \/ response' = Respond("register", HTTP_200_OK, "")
             \/ response' = Respond("register", HTTP_500_INTERNAL_SERVER_ERROR, "refresh failed")
       \/ /\ ~EmailUnique(req[w].email)
          /\ response' = Respond("register", HTTP_500_INTERNAL_SERVER_ERROR, "IntegrityError")
          /\ UNCHANGED users
       \/ /\ response' = Respond("register", HTTP_500_INTERNAL_SERVER_ERROR, "OperationalError")
          /\ UNCHANGED users
    /\ Finish(w)
    /\ UNCHANGED <<questions, nextQid, payments, files, nextFile, intents, started, env>>

\* ---------------------------------------------------------------- upload
InsufficientCredits_lt(c) == c < 0

InsufficientCredits_never(c) == FALSE

\* upload_question_image: `if current_user.credits <= 0'
InsufficientCredits(c) == c <= 0

DebitedCredits_plus(c) == c + UPLOAD_COST

\* upload_question_image: `current_user.credits -= 1' on the loaded object
DebitedCredits(c) == c - UPLOAD_COST

CleanupFile_kept(f) == files

\* The except branch of upload_question_image: the file is removed when
\* file_path was assigned (f # 0) and the file exists.
CleanupFile(f) == IF f # 0 /\ f \in files THEN files \ {f} ELSE files

\* get_current_active_user loads the caller's row into the session, then the
\* handler checks the loaded balance: 402 before anything else is done.
upload_question_image_begin(w) ==
    /\ req[w].pc = "idle"
    /\ \E u \in Registered :
          IF InsufficientCredits(users[u].credits)
          THEN /\ response' = Respond("upload", HTTP_402_PAYMENT_REQUIRED, "Not enough credits")
               /\ UNCHANGED <<req, started>>
          ELSE /\ Start
               /\ req' = [req EXCEPT ![w] = [Idle EXCEPT !.op = "upload", !.pc = "save",
                                                          !.user = u, !.credits = users[u].credits]]
               /\ response' = NoResponse
    /\ UNCHANGED <<db, files, nextFile, intents, env>>

\* save_uploaded_image: process_image_file may raise before any file is opened
\* (decode error); open() creates the file under a fresh uuid4 name and
\* f.write may raise after that (write error); else the path is returned and
\* assigned to file_path.  When it raises, file_path is not a local of the
\* handler and the except branch removes nothing.
upload_question_image_save(w) ==
    /\ req[w].op = "upload" /\ req[w].pc = "save"
    /\ \/ /\ nextFile' = nextFile + 1
          /\ files' = files \cup {nextFile + 1}
          /\ req' = [req EXCEPT ![w].pc = "commit", ![w].file = nextFile + 1]
          /\ response' = NoResponse
       \/ /\ response' = Respond("upload", HTTP_500_INTERNAL_SERVER_ERROR, "decode error")
          /\ Finish(w)
          /\ UNCHANGED <<files, nextFile>>
       \/ /\ nextFile' = nextFile + 1
          /\ files' = files \cup {nextFile + 1}
          /\ response' = Respond("upload", HTTP_500_INTERNAL_SERVER_ERROR, "write error")
          /\ Finish(w)
    /\ UNCHANGED <<db, intents, started, env>>

\* detect_text when it does not raise: the error string when the client is
\* None, else the text found (texts, the empty one included, are not told
\* apart).
detect_text == IF vision_client = "none" THEN VISION_NOT_INITIALIZED ELSE "text"

\* Question(user_id=..., image_path=file_path, extracted_text=...)
NewQuestion(w, t) ==
    [id |-> nextQid, user_id |-> req[w].user, image_path |-> req[w].file,
     extracted_text |-> t]

UploadCommitted_nodebit(w, t) ==
    /\ questions' = questions \cup {NewQuestion(w, t)}
    /\ nextQid' = nextQid + 1
    /\ UNCHANGED users

\* The transaction of upload_question_image: db.add(question);
\* current_user.credits -= 1; db.commit() inserts the row and writes the
\* debited balance together.
UploadCommitted(w, t) ==
    /\ questions' = questions \cup {NewQuestion(w, t)}
    /\ nextQid' = nextQid + 1
    /\ users' = [users EXCEPT ![req[w].user].credits = DebitedCredits(req[w].credits)]

\* upload_question_image after the image is saved:
\* vision_service.process_screenshot (raises when the image cannot be read or
\* the API answers an error; with no client it returns before either) and
\* openai_service.analyze_question (raises when the API call fails or its
\* output is not JSON), the transaction (commits or fails as a whole), then
\* db.refresh(question), which may fail after the commit.  Every failure goes
\* through the except branch: the file is removed and 500 is answered.
upload_question_image_commit(w) ==
    /\ req[w].op = "upload" /\ req[w].pc = "commit"
    /\ \/ /\ vision_client = "ready"
          /\ files' = CleanupFile(req[w].file)
          /\ response' = Respond("upload", HTTP_500_INTERNAL_SERVER_ERROR, "ocr failed")
          /\ UNCHANGED <<users, questions, nextQid>>
       \/ /\ files' = CleanupFile(req[w].file)
          /\ response' = Respond("upload", HTTP_500_INTERNAL_SERVER_ERROR, "analysis failed")
          /\ UNCHANGED <<users, questions, nextQid>>
       \/ /\ files' = CleanupFile(req[w].file)
          /\ response' = Respond("upload", HTTP_500_INTERNAL_SERVER_ERROR, "commit failed")
          /\ UNCHANGED <<users, questions, nextQid>>
       \/ /\ UploadCommitted(w, detect_text)
          /\ \/ /\ response' = Respond("upload", HTTP_200_OK, "")
                /\ UNCHANGED files
             \/ /\ files' = CleanupFile(req[w].file)
                /\ response' = Respond("upload", HTTP_500_INTERNAL_SERVER_ERROR, "refresh failed")
    /\ Finish(w)
    /\ UNCHANGED <<payments, nextFile, intents, started, env>>

\* ------------------------------------------------------- read, list, delete
\* get_user_questions: the rows whose user_id is the caller's.
get_user_questions(w) ==
    /\ req[w].pc = "idle"
    /\ \E u \in Registered :
          response' = RespondTo("list", HTTP_200_OK, "", u, 0, {r \in questions : r.user_id = u})
    /\ UNCHANGED <<db, files, nextFile, intents, req, started, env>>

Owns_anyone(u, r) == TRUE

\* get_question, delete_question: `if question.user_id != current_user.id'
Owns(u, r) == r.user_id = u

\* get_question: 404 for an unknown id, 403 for another account's row.
get_question(w) ==
    /\ req[w].pc = "idle"
    /\ \E u \in Registered, q \in QuestionIds :
          response' = IF QuestionById(q) = {}
                      THEN RespondTo("get", HTTP_404_NOT_FOUND, "Question not found", u, q, {})
                      ELSE IF ~Owns(u, CHOOSE r \in QuestionById(q) : TRUE)
                      THEN RespondTo("get", HTTP_403_FORBIDDEN, "Not authorized to access this question", u, q, {})
                      ELSE RespondTo("get", HTTP_200_OK, "", u, q, QuestionById(q))
    /\ UNCHANGED <<db, files, nextFile, intents, req, started, env>>

\* delete_question up to the ownership check: the row is loaded into the
\* session.
delete_question_begin(w) ==
    /\ req[w].pc = "idle"
    /\ \E u \in Registered, q \in QuestionIds :
          IF QuestionById(q) = {}
          THEN /\ response' = RespondTo("delete", HTTP_404_NOT_FOUND, "Question not found", u, q, {})
               /\ UNCHANGED <<req, started>>
          ELSE IF ~Owns(u, CHOOSE r \in QuestionById(q) : TRUE)
          THEN /\ response' = RespondTo("delete", HTTP_403_FORBIDDEN, "Not authorized to delete this question", u, q, {})
               /\ UNCHANGED <<req, started>>
          ELSE /\ Start
               /\ req' = [req EXCEPT ![w] = [Idle EXCEPT !.op = "delete", !.pc = "commit", !.user = u,
                               !.arg = q, !.file = (CHOOSE r \in QuestionById(q) : TRUE).image_path]]
               /\ response' = NoResponse
    /\ UNCHANGED <<db, files, nextFile, intents, env>>

\* delete_question from os.path.exists on: the file is removed first, then
\* db.delete(question); db.commit(), which fails when the database fails.
\* When the row is already gone (another request deleted it) the DELETE
\* matches no row, which the ORM reports as StaleDataError or only warns
\* about, depending on its version.
delete_question_commit(w) ==
    /\ req[w].op = "delete" /\ req[w].pc = "commit"
    /\ files' = files \ {req[w].file}
    /\ \/ /\ QuestionById(req[w].arg) # {}
          /\ questions' = questions \ QuestionById(req[w].arg)
          /\ response' = Respond("delete", HTTP_204_NO_CONTENT, "")
       \/ /\ QuestionById(req[w].arg) = {}
          /\ \/ response' = Respond("delete", HTTP_500_INTERNAL_SERVER_ERROR, "StaleDataError")
             \/ response' = Respond("delete", HTTP_204_NO_CONTENT, "")
          /\ UNCHANGED questions
       \/ /\ response' = Respond("delete", HTTP_500_INTERNAL_SERVER_ERROR, "commit failed")
          /\ UNCHANGED questions
    /\ Finish(w)
    /\ UNCHANGED <<users, nextQid, payments, nextFile, intents, started, env>>

\* -------------------------------------------------------------- payments
\* metadata without a user_id: int(None) raises in stripe_webhook
NO_METADATA == 0

NewIntent_clientamount(u, p, a) ==
    [user_id |-> u, credit_package |-> p,
     credits |-> CREDIT_PACKAGES[p].credits, amount |-> a]

\* stripe.PaymentIntent.create(amount=package["amount"], metadata={...});
\* payment_data.amount (a) is not used.
NewIntent(u, p, a) ==
    [user_id |-> u, credit_package |-> p,
     credits |-> CREDIT_PACKAGES[p].credits, amount |-> CREDIT_PACKAGES[p].amount]

\* create_payment_intent: 400 for a package outside CREDIT_PACKAGES, else the
\* provider creates the intent with the package's amount and credits (or
\* fails: 500).  The client-supplied amount is never read.
create_payment_intent(w) ==
    /\ req[w].pc = "idle"
    /\ \E u \in Registered, p \in RequestedPackages, a \in ClientAmounts :
          IF p \notin PackageNames
          THEN /\ response' = Respond("intent", HTTP_400_BAD_REQUEST, "Invalid credit package")
               /\ UNCHANGED <<intents, started>>
          ELSE \/ /\ Start
                  /\ intents' = Append(intents, NewIntent(u, p, a))
                  /\ response' = Respond("intent", HTTP_200_OK, "")
               \/ /\ response' = Respond("intent", HTTP_500_INTERNAL_SERVER_ERROR, "Failed to create payment intent")
                  /\ UNCHANGED <<intents, started>>
    /\ UNCHANGED <<db, files, nextFile, req, env>>

\* An intent of the same provider account made outside this backend: its
\* metadata may lack user_id or name an id that is no account.
foreign_intent ==
    /\ Start
    /\ \E u \in {NO_METADATA, Cardinality(Emails)} :
          intents' = Append(intents, [NewIntent(u, "small", CREDIT_PACKAGES.small.amount) EXCEPT !.credit_package = "foreign"])
    /\ response' = NoResponse
    /\ UNCHANGED <<db, files, nextFile, req, env>>

\* get_payment_history: the caller's payment rows.
get_payment_history(w) ==
    /\ req[w].pc = "idle"
    /\ \E u \in Registered :
          response' = Respond("history", HTTP_200_OK, "")
    /\ UNCHANGED <<db, files, nextFile, intents, req, started, env>>

SignatureVerified_skipped(signed) == TRUE

\* stripe.Webhook.construct_event: raises SignatureVerificationError unless
\* the payload was signed with the shared secret.
SignatureVerified(signed) == signed

IsSuccessEvent_any(t) == TRUE

\* stripe_webhook: `if event["type"] == "payment_intent.succeeded"'
IsSuccessEvent(t) == t = SUCCEEDED

\* The payloads posted to the webhook: signed by the provider or not.  A
\* payment_intent.* event carries an intent's id and metadata (a forged one
\* copies them); an event about another object carries none (intent 0).
WebhookPayloads ==
    {[signed |-> sg, type |-> t, intent |-> i] :
        sg \in BOOLEAN, t \in EventTypes, i \in {0} \cup DOMAIN intents}

WellFormed(e) == (e.type = SUCCEEDED) => (e.intent # 0)

UserNotFound_raised == Respond("webhook", HTTP_404_NOT_FOUND, "error: User not found")

\* stripe_webhook: `if not user: return {"status": "error", ...}', a normal
\* return, sent with the route's status 200
UserNotFound == Respond("webhook", HTTP_200_OK, "error: User not found")

\* stripe_webhook up to the user lookup.  A payload that fails verification
\* is answered 400.  A verified event of another type: success, nothing
\* done.  A payment_intent.succeeded event: a missing user_id raises (500),
\* an unknown user_id is answered {"status": "error"} with status 200, else
\* the user row is loaded into the session.
stripe_webhook_begin(w) ==
    /\ req[w].pc = "idle"
    /\ \E e \in WebhookPayloads :
         /\ WellFormed(e)
         /\ IF ~SignatureVerified(e.signed)
            THEN /\ response' = Respond("webhook", HTTP_400_BAD_REQUEST, "Invalid signature")
                 /\ UNCHANGED <<req, started>>
            ELSE IF ~IsSuccessEvent(e.type)
            THEN /\ response' = Respond("webhook", HTTP_200_OK, "success")
                 /\ UNCHANGED <<req, started>>
            ELSE IF e.intent = 0 \/ intents[e.intent].user_id = NO_METADATA
            THEN /\ response' = Respond("webhook", HTTP_500_INTERNAL_SERVER_ERROR, "Webhook error: TypeError")
                 /\ UNCHANGED <<req, started>>
            ELSE IF intents[e.intent].user_id \notin Registered
            THEN /\ response' = UserNotFound
                 /\ UNCHANGED <<req, started>>
            ELSE /\ Start
                 /\ req' = [req EXCEPT ![w] = [Idle EXCEPT !.op = "webhook", !.pc = "commit",
                                 !.user = intents[e.intent].user_id,
                                 !.credits = users[intents[e.intent].user_id].credits,
                                 !.arg = e.intent, !.k = intents[e.intent].credits,
                                 !.amount = intents[e.intent].amount,
                                 !.signed = e.signed, !.type = e.type]]
                 /\ response' = NoResponse
    /\ UNCHANGED <<db, files, nextFile, intents, env>>

StripePaymentIdUnique_missing(pid) == TRUE

\* the unique index ix_payments_stripe_payment_id (Payment.stripe_payment_id
\* unique=True): an INSERT of an id some row already has is refused.
StripePaymentIdUnique(pid) == PaymentsWithId(pid) = {}

\* stripe_webhook: `user.credits += credits' on the loaded object
CreditedCredits(c, k) == c + k

\* Payment(user_id=..., amount=payment_intent["amount"] / 100, ...): the
\* amount in dollars, kept as whole dollars and cents.
NewPayment(w) ==
    [id |-> Cardinality(payments) + 1, user_id |-> req[w].user,
     amount |-> [dollars |-> req[w].amount \div 100, cents |-> req[w].amount % 100],
     status |-> "completed", stripe_payment_id |-> req[w].arg,
     credits_purchased |-> req[w].k]

WebhookCommitted_rowonly(w) ==
    /\ payments' = payments \cup {NewPayment(w)}
    /\ UNCHANGED users

\* the rows and balances after the transaction of stripe_webhook commits
WebhookCommitted(w) ==
    /\ payments' = payments \cup {NewPayment(w)}
    /\ users' = [users EXCEPT ![req[w].user].credits = CreditedCredits(req[w].credits, req[w].k)]

\* stripe_webhook from db.add(payment) on: one transaction that inserts the
\* Payment row and writes the credited balance.  The commit fails as a whole
\* when the unique index refuses the row (or the database fails); the
\* exception is caught by `except Exception' and answered 500.
stripe_webhook_commit(w) ==
    /\ req[w].op = "webhook" /\ req[w].pc = "commit"
    /\ \/ /\ StripePaymentIdUnique(req[w].arg)
          /\ WebhookCommitted(w)
          /\ response' = Respond("webhook", HTTP_200_OK, "success")
       \/ /\ ~StripePaymentIdUnique(req[w].arg)
          /\ response' = Respond("webhook", HTTP_500_INTERNAL_SERVER_ERROR, "Webhook error: IntegrityError")
          /\ UNCHANGED <<users, payments>>
       \/ /\ response' = Respond("webhook", HTTP_500_INTERNAL_SERVER_ERROR, "Webhook error: OperationalError")
          /\ UNCHANGED <<users, payments>>
    /\ Finish(w)
    /\ UNCHANGED <<questions, nextQid, files, nextFile, intents, started, env>>

\* ------------------------------------------------------------ behaviours
\* Requests that read the database once and answer.
ReadOnly(w) ==
    \/ get_current_user_fails(w)
    \/ read_users_me(w)
    \/ login_for_access_token(w)
    \/ get_user_questions(w)
    \/ get_question(w)
    \/ get_payment_history(w)

Begin(w) ==
    \/ register_user_begin(w)
    \/ upload_question_image_begin(w)
    \/ delete_question_begin(w)
    \/ create_payment_intent(w)
    \/ stripe_webhook_begin(w)

Continue(w) ==
    \/ register_user_commit(w)
    \/ upload_question_image_save(w)
    \/ upload_question_image_commit(w)
    \/ delete_question_commit(w)
    \/ stripe_webhook_commit(w)

\* Workers are interchangeable: a new request goes to "w1" unless "w1" is busy.
FirstFree(w) == w = "w1" \/ req["w1"].pc # "idle"

NoneInFlight == \A w \in Workers : req[w].pc = "idle"

\* Requests overlap: any worker takes the next step of its request.  A
\* read-only request is one atomic read of committed rows; it sees the same
\* rows whether or not other requests are in flight, so it is taken between
\* them.
Next ==
    \/ \E w \in Workers : NoneInFlight /\ FirstFree(w) /\ ReadOnly(w)
    \/ \E w \in Workers : FirstFree(w) /\ Begin(w)
    \/ \E w \in Workers : Continue(w)
    \/ foreign_intent

Spec == Init /\ [][Next]_vars

\* Requests are handled one after another: a request starts only when no
\* other is in flight.
SeqNext ==
    \/ \E w \in Workers : NoneInFlight /\ FirstFree(w) /\ ReadOnly(w)
    \/ \E w \in Workers : NoneInFlight /\ FirstFree(w) /\ Begin(w)
    \/ \E w \in Workers : Continue(w)
    \/ foreign_intent

SeqSpec == Init /\ [][SeqNext]_vars

\* ================================================================ claims
\* the step in which worker w's request of kind o ends
Committing(w, o) == req[w].op = o /\ req[w].pc = "commit" /\ req'[w].pc = "idle"

\* the step in which worker w's request of kind o passes its first checks
Entering(w, o) == req[w].pc = "idle" /\ req'[w].op = o

Balance(u) == users[u].credits

QuestionsOf(u) == {q \in questions : q.user_id = u}

\* C1: when the same verified payment_intent.succeeded notification is handled
\* again after it was handled, nothing changes: no two Payment rows share a
\* stripe_payment_id, a delivery whose id already has a row leaves balances
\* and rows as they are, and a balance rises only in the step that inserts the
\* one row of a new id, by exactly that row's credits.
C1_ReplayIdempotent ==
    /\ [](\A p1, p2 \in payments : p1.stripe_payment_id = p2.stripe_payment_id => p1 = p2)
    /\ [][\A w \in Workers :
            (Committing(w, "webhook") /\ PaymentsWithId(req[w].arg) # {})
                => (users' = users /\ payments' = payments)]_vars
    /\ [][\A u \in DOMAIN users :
            users'[u].credits > Balance(u)
                => \E p \in payments' \ payments :
                     /\ payments' = payments \cup {p}
                     /\ p.user_id = u
                     /\ PaymentsWithId(p.stripe_payment_id) = {}
                     /\ users'[u].credits = Balance(u) + p.credits_purchased]_vars

\* C1 witness: a replay was just refused, one row exists and the account
\* holds its earlier balance plus the credits once.
C1_Witness ==
    /\ response = Respond("webhook", HTTP_500_INTERNAL_SERVER_ERROR, "Webhook error: IntegrityError")
    /\ \E p \in payments :
         /\ Cardinality(PaymentsWithId(p.stripe_payment_id)) = 1
         /\ Balance(p.user_id) = FREE_CREDITS + p.credits_purchased

\* C2: a verified payment_intent.succeeded delivery whose id already has a
\* Payment row (the database being up) is answered without an error status
\* and changes neither balances nor rows.
C2_ReplayAnsweredSuccess ==
    [][\A w \in Workers :
         (/\ Committing(w, "webhook")
          /\ PaymentsWithId(req[w].arg) # {}
          /\ response'.body # "Webhook error: OperationalError")
            => (response'.status < HTTP_400_BAD_REQUEST /\ users' = users /\ payments' = payments)]_vars

\* C3: the Payment row and the credited balance are written by one step: the
\* step that ends a webhook delivery either changes neither rows nor
\* balances, or adds exactly one row, for the delivery's id, account and
\* credits, and sets that account's balance to the balance the handler
\* loaded plus the row's credits_purchased; no other step adds a row.
C3_PaymentAndCreditAtomic ==
    [][/\ \A w \in Workers :
            Committing(w, "webhook")
                => \/ (payments' = payments /\ users' = users)
                   \/ \E p \in payments' \ payments :
                        /\ payments' = payments \cup {p}
                        /\ PaymentsWithId(req[w].arg) = {}
                        /\ p.stripe_payment_id = req[w].arg
                        /\ p.user_id = req[w].user
                        /\ p.credits_purchased = intents[req[w].arg].credits
                        /\ users' = [users EXCEPT ![p.user_id].credits =
                                        req[w].credits + p.credits_purchased]
       /\ payments' # payments => \E w \in Workers : Committing(w, "webhook")]_vars

\* C3 witness: a delivery has just committed; its row exists and the account
\* holds the balance it had plus the row's credits.
C3_Witness ==
    /\ response = Respond("webhook", HTTP_200_OK, "success")
    /\ \E p \in payments :
         /\ p.credits_purchased = CREDIT_PACKAGES.small.credits
         /\ Balance(p.user_id) - p.credits_purchased \in SpentBalances

\* C4: a payload that fails signature verification is answered 400 and no
\* balance, row or file changes; no request that failed verification is ever
\* handled further.
C4_BadSignatureRejected ==
    /\ [](\A w \in Workers : req[w].op = "webhook" => req[w].signed)
    /\ [][response'.body = "Invalid signature"
            => (/\ response'.status = HTTP_400_BAD_REQUEST
                /\ UNCHANGED <<users, payments, questions, files, req>>)]_vars

\* C4 witness: an unsigned payload was just refused while an intent it may
\* copy exists and nothing was credited.
C4_Witness ==
    /\ response = Respond("webhook", HTTP_400_BAD_REQUEST, "Invalid signature")
    /\ intents # << >>
    /\ payments = {}

\* C5: only a verified payment_intent.succeeded event reaches the ledger: a
\* delivery in flight is a verified success event, Payment rows change only
\* in the step that ends such a delivery, and a webhook answered at once (an
\* event of another type among them) changes neither balances nor rows.
C5_OnlySuccessEventsMutate ==
    /\ [](\A w \in Workers :
            req[w].op = "webhook" => (req[w].type = SUCCEEDED /\ req[w].signed))
    /\ [][payments' # payments
            => \E w \in Workers :
                 Committing(w, "webhook") /\ req[w].type = SUCCEEDED /\ req[w].signed]_vars
    /\ [][(response'.op = "webhook" /\ \A w \in Workers : ~Committing(w, "webhook"))
            => UNCHANGED <<users, payments>>]_vars

\* C5 witness: a verified event of another type was just answered "success"
\* for an existing intent and no row exists.
C5_Witness ==
    /\ response = Respond("webhook", HTTP_200_OK, "success")
    /\ intents # << >>
    /\ payments = {}

\* C6: an account's balance changes only in the step that ends a webhook
\* delivery or an upload of that account, and an upload leaves it below the
\* balance the account had when the upload began; no other operation changes
\* a balance.
C6_OnlyWebhookIncreases ==
    /\ [][\A w \in Workers :
            Entering(w, "upload") => req'[w].credits = Balance(req'[w].user)]_vars
    /\ [][\A u \in DOMAIN users :
            users'[u].credits # Balance(u)
                => \E w \in Workers :
                     /\ req[w].user = u
                     /\ \/ Committing(w, "webhook")
                        \/ Committing(w, "upload") /\ users'[u].credits < req[w].credits]_vars

\* C6 witness: an account that registered, uploaded and deleted holds one
\* credit less than the registration grant.
C6_Witness ==
    /\ response = Respond("delete", HTTP_204_NO_CONTENT, "")
    /\ \E u \in DOMAIN users : Balance(u) = FREE_CREDITS - UPLOAD_COST

\* C7: an upload of an account whose balance is zero or less is answered 402
\* at once: every upload that gets past the check loaded a positive balance,
\* the balance it loaded is the account's, the 402 step changes nothing and
\* starts nothing, and files appear only in the save step of an upload that
\* passed the check.
C7_ZeroBalanceRejectedFirst ==
    /\ [](\A w \in Workers : req[w].op = "upload" => req[w].credits > 0)
    /\ [][\A w \in Workers :
            Entering(w, "upload") => req'[w].credits = Balance(req'[w].user)]_vars
    /\ [][response'.status = HTTP_402_PAYMENT_REQUIRED
            => (/\ response'.op = "upload"
                /\ UNCHANGED <<users, questions, files, nextFile, req>>)]_vars
    /\ [][files' \ files # {}
            => \E w \in Workers : req[w].op = "upload" /\ req[w].pc = "save"]_vars

\* C7 witness: an upload was just refused with 402 for lack of credits while
\* an account has balance zero and no request is in flight.
C7_Witness ==
    /\ response.status = HTTP_402_PAYMENT_REQUIRED
    /\ \E u \in DOMAIN users : Balance(u) = 0
    /\ \A w \in Workers : req[w].pc = "idle"

\* C8: no account's balance is negative, whatever requests overlap.
C8_BalanceNeverNegative == \A u \in DOMAIN users : Balance(u) >= 0

\* C8 witness: two uploads of the account that had one credit overlapped and
\* both committed; its balance is zero.
C8_Witness ==
    \E u \in DOMAIN users :
        /\ Balance(u) = 0
        /\ Cardinality(QuestionsOf(u)) = 2
        /\ payments = {}

\* C9: with requests handled one after another, the step that ends an upload
\* either changes neither rows nor balances or adds exactly one Question row
\* of the caller and lowers the caller's balance by one; a balance falls by
\* one only in such a step, rows appear only in such a step, and no upload of
\* an account with balance zero gets past the check.
C9_UploadDebitsOneWithRow ==
    [][/\ \A w \in Workers :
            Committing(w, "upload")
                => \/ (questions' = questions /\ users' = users)
                   \/ \E q \in questions' \ questions :
                        /\ questions' = questions \cup {q}
                        /\ q.user_id = req[w].user
                        /\ q.image_path = req[w].file
                        /\ users' = [users EXCEPT ![q.user_id].credits = Balance(q.user_id) - 1]
       /\ \A u \in DOMAIN users :
            users'[u].credits < Balance(u)
                => /\ users'[u].credits = Balance(u) - 1
                   /\ \E w \in Workers : Committing(w, "upload") /\ req[w].user = u
                   /\ Cardinality(questions') = Cardinality(questions) + 1
       /\ questions' \ questions # {} => \E w \in Workers : Committing(w, "upload")
       /\ \A w \in Workers : Entering(w, "upload") => Balance(req'[w].user) >= 1]_vars

\* C9 witness: the account that had one credit uploaded once, holds balance
\* zero and one row, and its next upload was just answered 402.
C9_Witness ==
    /\ response = Respond("upload", HTTP_402_PAYMENT_REQUIRED, "Not enough credits")
    /\ Balance(1) = 0
    /\ Cardinality(QuestionsOf(1)) = 1
    /\ started = 1

\* C10: when deliveries of one notification overlap, at most one commits: no
\* id ever has two Payment rows, a delivery that ends after a row of its id
\* exists is refused and changes nothing, and the delivery that inserts the
\* row leaves the balance at what both had loaded plus the credits.
C10_ConcurrentDuplicates ==
    /\ [](\A i \in DOMAIN intents : Cardinality(PaymentsWithId(i)) <= 1)
    /\ [][\A w \in Workers :
            (Committing(w, "webhook") /\ PaymentsWithId(req[w].arg) # {})
                => (/\ UNCHANGED <<users, payments>>
                    /\ response'.status = HTTP_500_INTERNAL_SERVER_ERROR)]_vars
    /\ [][\A w, v \in Workers :
            (/\ w # v
             /\ Committing(w, "webhook")
             /\ req[v].op = "webhook" /\ req[v].arg = req[w].arg
             /\ req[v].credits = req[w].credits
             /\ payments' # payments)
                => (/\ Cardinality({p \in payments' : p.stripe_payment_id = req[w].arg}) = 1
                    /\ users'[req[w].user].credits = req[v].credits + req[v].k)]_vars

\* C10 witness: one of two overlapping deliveries has committed (the row
\* exists, the balance is what the other loaded plus the credits) and the
\* other is still in flight.
C10_Witness ==
    \E w \in Workers :
        /\ req[w].op = "webhook"
        /\ PaymentsWithId(req[w].arg) # {}
        /\ Balance(req[w].user) = req[w].credits + req[w].k

\* C11: a verified success notification naming an account id that is no
\* account is answered without an error status, and that step changes no
\* balance and no Payment row and leaves no request in flight; no delivery in
\* flight and no Payment row names an id that is no account; the only
\* deliveries refused before the ledger is reached are those that fail
\* verification or carry no user_id.
C11_AbsentUserNoOp ==
    /\ [](\A w \in Workers : req[w].op = "webhook" => req[w].user \in Registered)
    /\ [](\A p \in payments : p.user_id \in Registered)
    /\ [][response'.body = "error: User not found"
            => (/\ response'.status < HTTP_400_BAD_REQUEST
                /\ UNCHANGED <<users, payments, questions, files, req>>)]_vars
    /\ [][(/\ response'.op = "webhook"
           /\ response'.status >= HTTP_400_BAD_REQUEST
           /\ \A w \in Workers : ~Committing(w, "webhook"))
            => response'.body \in {"Invalid signature", "Webhook error: TypeError"}]_vars

\* C11 witness: a delivery for an intent whose user_id is no account was just
\* answered "User not found" with status 200, and no row exists.
C11_Witness ==
    /\ response = Respond("webhook", HTTP_200_OK, "error: User not found")
    /\ \E i \in DOMAIN intents :
         intents[i].user_id # NO_METADATA /\ intents[i].user_id \notin Registered
    /\ payments = {}

\* C12: when the OCR or the analysis call of an upload raises, the upload is
\* answered 500 in the step that ends it, the file that upload wrote is no
\* longer in the upload directory, no other file is touched, and no Question
\* row and no balance changes.
C12_FailedAnalysisCleansUp ==
    [][response'.body \in {"ocr failed", "analysis failed"}
         => (/\ response'.status = HTTP_500_INTERNAL_SERVER_ERROR
             /\ \E w \in Workers :
                  /\ Committing(w, "upload")
                  /\ req[w].file \in files
                  /\ files' = files \ {req[w].file}
             /\ UNCHANGED <<users, questions>>)]_vars

\* C12 witness: an upload whose analysis failed was just answered 500; a file
\* name was drawn, the directory is empty, and the account still has its
\* credit and no row.
C12_Witness ==
    /\ response = Respond("upload", HTTP_500_INTERNAL_SERVER_ERROR, "analysis failed")
    /\ nextFile = 1
    /\ files = {}
    /\ questions = {}
    /\ Balance(1) \in SpentBalances

\* C13: when image intake of an upload fails (the image does not decode, or
\* the write to disk fails), the step that answers the failure leaves the
\* upload directory as it was and changes no Question row and no balance.
C13_FailedIntakeLeavesNothing ==
    [][response'.body \in {"decode error", "write error"}
         => (/\ response'.status = HTTP_500_INTERNAL_SERVER_ERROR
             /\ files' = files
             /\ UNCHANGED <<users, questions>>)]_vars

\* C14: while the OCR client is not initialised, every upload that reaches
\* text extraction ends with an error status, stores no Question row and
\* debits no credit, and no row ever holds the client's error message as its
\* extracted text.
C14_NoClientUploadFails ==
    /\ [](\A q \in questions : q.extracted_text # VISION_NOT_INITIALIZED)
    /\ [][(vision_client = "none" /\ \E w \in Workers : Committing(w, "upload"))
            => (/\ response'.status >= HTTP_400_BAD_REQUEST
                /\ UNCHANGED <<users, questions>>)]_vars

\* C15: with requests handled one after another, the step that ends a
\* delete_question by the owner leaves the Question row and its image file
\* both gone: never the row without the file, never the file without the
\* row.
C15_DeleteRemovesRowAndFile ==
    [][\A w \in Workers :
         Committing(w, "delete")
            => (/\ {r \in questions' : r.id = req[w].arg} = {}
                /\ req[w].file \notin files')]_vars

\* C16: a registration whose email is in use when its INSERT is committed
\* (the database being up) is answered 400 "Email already registered", as a
\* registration that finds the email at its lookup is, and leaves the
\* accounts as they are.
C16_UsedEmailAnsweredConflict ==
    [][\A w \in Workers :
         (/\ Committing(w, "register")
          /\ ~EmailUnique(req[w].email)
          /\ response'.body # "OperationalError")
            => (/\ response' = Respond("register", HTTP_400_BAD_REQUEST, "Email already registered")
                /\ users' = users)]_vars

\* what does hold of overlapping registrations: at most one account per
\* email, and a registration refused for its email changes no account
C16_OneAccountPerEmail ==
    /\ [](\A u, v \in Registered : users[u].email = users[v].email => u = v)
    /\ [][response'.body \in {"Email already registered", "IntegrityError"}
            => users' = users]_vars

\* C17: a question is read or deleted only by its owner.  get_question and
\* delete_question answer 404 for an id that is no row and 403 for a row of
\* another account, and those steps change no row and no file; the row
\* get_question returns is the caller's; a delete in flight is its caller's
\* own row, and rows are removed only by the step that ends the owner's
\* delete; get_user_questions returns exactly the caller's rows.
C17_OwnerOnly ==
    /\ [](\A w \in Workers :
            req[w].op = "delete" => \A r \in QuestionById(req[w].arg) : r.user_id = req[w].user)
    /\ [][(response'.op \in {"get", "delete"} /\ response'.arg # 0)
            => (/\ UNCHANGED <<questions, files, users, req>>
                /\ QuestionById(response'.arg) = {}
                      => response'.status = HTTP_404_NOT_FOUND
                /\ \A r \in QuestionById(response'.arg) :
                      IF r.user_id = response'.user
                      THEN response'.op = "get" /\ response'.status = HTTP_200_OK
                                                /\ response'.rows = {r}
                      ELSE response'.status = HTTP_403_FORBIDDEN /\ response'.rows = {})]_vars
    /\ [][\A r \in questions \ questions' :
            \E w \in Workers :
                Committing(w, "delete") /\ req[w].arg = r.id /\ req[w].user = r.user_id]_vars
    /\ [][response'.op = "list"
            => (/\ response'.rows = {r \in questions : r.user_id = response'.user}
                /\ UNCHANGED <<questions, files>>)]_vars

\* C17 witness: an account that owns a row was just refused (403) the
\* deletion of another account's row; both rows and both files are there.
C17_Witness ==
    /\ response.op = "delete"
    /\ response.status = HTTP_403_FORBIDDEN
    /\ \E r \in QuestionById(response.arg) :
         /\ r.user_id # response.user
         /\ r.image_path \in files
    /\ QuestionsOf(response.user) # {}

\* C18: credits are conserved whatever requests overlap: every committed
\* upload that adds a Question row lowers the stored balance of its account
\* by exactly one, every committed delivery that adds a Payment row raises it
\* by exactly that row's credits_purchased, and nothing else changes a
\* balance (so that balance = grant + purchases - rows created, step by step).
C18_CreditConservation ==
    [][\A u \in Registered :
         users'[u].credits - Balance(u) =
             (IF \E p \in payments' \ payments : p.user_id = u
              THEN (CHOOSE p \in payments' \ payments : p.user_id = u).credits_purchased
              ELSE 0)
           - Cardinality({q \in questions' \ questions : q.user_id = u})]_vars

\* C19: whenever no request is in progress, every Question row's image_path
\* names a file of the upload directory and every file of the upload
\* directory is named by exactly one Question row.
C19_FilesMatchRows ==
    NoneInFlight
        => /\ \A q \in questions : q.image_path \in files
           /\ \A f \in files : Cardinality({q \in questions : q.image_path = f}) = 1

\* payment_intent["amount"] / 100 of a package's price
PackagePrice(p) ==
    [dollars |-> CREDIT_PACKAGES[p].amount \div 100, cents |-> CREDIT_PACKAGES[p].amount % 100]

\* C20: the package fixes credits and price.  A create_payment_intent for a
\* name outside CREDIT_PACKAGES is answered 400 and creates no intent; every
\* intent made for a package carries that package's amount and credits,
\* whatever amount the client sent; and every Payment row made from such an
\* intent has the package's credits (10, 50 or 200) and the package's price.
C20_PackageFixesCreditsAndPrice ==
    /\ [](\A i \in DOMAIN intents :
            /\ intents[i].credit_package \in PackageNames \cup {"foreign"}
            /\ intents[i].credit_package \in PackageNames
                 => /\ intents[i].credits = CREDIT_PACKAGES[intents[i].credit_package].credits
                    /\ intents[i].amount = CREDIT_PACKAGES[intents[i].credit_package].amount)
    /\ [](\A p \in payments :
            LET pkg == intents[p.stripe_payment_id].credit_package IN
            pkg \in PackageNames
                 => /\ p.credits_purchased = CREDIT_PACKAGES[pkg].credits
                    /\ p.credits_purchased \in {10, 50, 200}
                    /\ p.amount = PackagePrice(pkg))
    /\ [][response'.body = "Invalid credit package"
            => (/\ response'.status = HTTP_400_BAD_REQUEST
                /\ UNCHANGED <<intents, users, payments, req>>)]_vars
    /\ [][(response'.op = "intent" /\ response'.status = HTTP_200_OK)
            => \E i \in DOMAIN intents' :
                 /\ intents' = Append(intents, intents'[i])
                 /\ intents'[i].credit_package \in PackageNames]_vars

\* C20 witness: a delivery for an intent of the large package has just
\* committed; the row carries 200 credits and the price 59.99.
C20_Witness ==
    /\ response = Respond("webhook", HTTP_200_OK, "success")
    /\ \E p \in payments :
         /\ intents[p.stripe_payment_id].credit_package = "large"
         /\ p.credits_purchased = 200
         /\ p.amount = [dollars |-> 59, cents |-> 99]

====
